---- MODULE Spec2Model ----
(***************************************************************************)
(* Model of src/src/DateRangePicker.tsx: the two-click date-range picker.  *)
(*                                                                         *)
(* A Dayjs value is an instant.  It is modelled as a tick count; the       *)
(* calendar day of an instant t is t \div TicksPerDay.  isBefore/isAfter   *)
(* and isBetween (called without a unit) compare instants, isSame(.,'day') *)
(* compares calendar days.  A missing date (null) is None.                 *)
(*                                                                         *)
(* The component is controlled: `value` is the pair the caller passes in,  *)
(* and the caller applies every pair reported through onChange.            *)
(***************************************************************************)
EXTENDS Integers, Sequences, FiniteSets

NumDays == 3
TicksPerDay == 2

None == -1
Dates == 0 .. (NumDays * TicksPerDay - 1)
MaybeDate == Dates \cup {None}
NoReport == << >>
NoDeps == << >>

VARIABLES
  value,        \* props.value as held by the caller: <<start, end>>
  startTurn,    \* React state: next click sets the start
  pickerValue,  \* React state: date the calendar is positioned on
  pc,           \* "rendered": a render is committed, its effect has not run
                \* "idle": the effect of the last render has run
  effectDeps,   \* dependency list remembered by useEffect
  reported,     \* argument of onChange in the latest handler call, or NoReport
  last,         \* latest handler call: operation, argument, state it saw
  prev,         \* the handler call before that
  cells         \* output of the Day slot for every cell of the calendar

vars == <<value, startTurn, pickerValue, pc, effectDeps, reported, last, prev, cells>>

----------------------------------------------------------------------------
(* dayjs *)

dayOf(t) == t \div TicksPerDay

isAfter(a, b) == a > b

isBefore_orEqual(a, b) == a <= b

isBefore(a, b) == a < b

isSameDay(a, b) == dayOf(a) = dayOf(b)

\* isBetween(a, b, null, '[]'): inclusive on both sides, either order of a, b
isBetween(d, a, b) ==
  \/ (~isBefore(d, a) /\ ~isAfter(d, b))
  \/ (~isAfter(d, a) /\ ~isBefore(d, b))

\* x || y on Dayjs | null
orElse(x, y) == IF x # None THEN x ELSE y

----------------------------------------------------------------------------
(* Day slot *)

Day(day, startDay, endDay) ==
  IF startDay = None /\ endDay = None
  THEN [plain |-> TRUE, dayIsBetween |-> FALSE,
        isFirstDay |-> FALSE, isLastDay |-> FALSE]
  ELSE LET start == orElse(startDay, endDay)
           end   == orElse(endDay, startDay)
       IN [plain |-> FALSE,
           dayIsBetween |-> isBetween(day, start, end),
           isFirstDay |-> isSameDay(day, start),
           isLastDay |-> isSameDay(day, end)]

renderCells(val) == [d \in Dates |-> Day(d, val[1], val[2])]

----------------------------------------------------------------------------
(* DateRangePicker *)

\* the value the effect gives to setPickerValue
effectValue(val, turn) == IF turn THEN val[1] ELSE val[2]

depsOf_noTurn(val, turn) == <<val[1], val[2]>>

depsOf(val, turn) == <<val[1], val[2], turn>>

\* end turn without the reversal test
handleChange_noSwap(newValue, val, turn, pick) ==
  IF newValue = None
  THEN [value |-> val, startTurn |-> turn, pickerValue |-> pick,
        reported |-> NoReport]
  ELSE IF turn
  THEN LET newVal == IF val[2] # None /\ newValue > val[2]
                     THEN <<newValue, None>> ELSE <<newValue, val[2]>>
       IN [value |-> newVal, startTurn |-> FALSE,
           pickerValue |-> newValue, reported |-> newVal]
  ELSE [value |-> <<val[1], newValue>>, startTurn |-> TRUE,
        pickerValue |-> newValue, reported |-> <<val[1], newValue>>]

\* start turn that keeps the end date even when the new start is after it
handleChange_keepEnd(newValue, val, turn, pick) ==
  IF newValue = None
  THEN [value |-> val, startTurn |-> turn, pickerValue |-> pick,
        reported |-> NoReport]
  ELSE IF turn
  THEN [value |-> <<newValue, val[2]>>, startTurn |-> FALSE,
        pickerValue |-> newValue, reported |-> <<newValue, val[2]>>]
  ELSE IF val[1] # None /\ newValue < val[1]
  THEN [value |-> <<newValue, val[1]>>, startTurn |-> FALSE,
        pickerValue |-> newValue, reported |-> <<newValue, val[1]>>]
  ELSE [value |-> <<val[1], newValue>>, startTurn |-> TRUE,
        pickerValue |-> newValue, reported |-> <<val[1], newValue>>]

\* end-turn reversal that hands the turn back to the start
handleChange_swapFlips(newValue, val, turn, pick) ==
  IF newValue = None
  THEN [value |-> val, startTurn |-> turn, pickerValue |-> pick,
        reported |-> NoReport]
  ELSE IF turn
  THEN LET newVal == IF val[2] # None /\ newValue > val[2]
                     THEN <<newValue, None>> ELSE <<newValue, val[2]>>
       IN [value |-> newVal, startTurn |-> FALSE,
           pickerValue |-> newValue, reported |-> newVal]
  ELSE IF val[1] # None /\ newValue < val[1]
  THEN [value |-> <<newValue, val[1]>>, startTurn |-> TRUE,
        pickerValue |-> newValue, reported |-> <<newValue, val[1]>>]
  ELSE [value |-> <<val[1], newValue>>, startTurn |-> TRUE,
        pickerValue |-> newValue, reported |-> <<val[1], newValue>>]

\* no early return on null: null?.isAfter(..) is undefined, hence not reverse
handleChange_noNullGuard(newValue, val, turn, pick) ==
  IF turn
  THEN LET isReverse == newValue # None /\ val[2] # None /\ newValue > val[2]
           newVal == IF isReverse THEN <<newValue, None>>
                                  ELSE <<newValue, val[2]>>
       IN [value |-> newVal, startTurn |-> FALSE,
           pickerValue |-> newValue, reported |-> newVal]
  ELSE IF newValue # None /\ val[1] # None /\ newValue < val[1]
  THEN [value |-> <<newValue, val[1]>>, startTurn |-> FALSE,
        pickerValue |-> newValue, reported |-> <<newValue, val[1]>>]
  ELSE [value |-> <<val[1], newValue>>, startTurn |-> TRUE,
        pickerValue |-> newValue, reported |-> <<val[1], newValue>>]

\* handleChange: result is the state after the handler and the caller's
\* update; reported is the pair handed to onChange
handleChange(newValue, val, turn, pick) ==
  LET startDay == val[1]
      endDay   == val[2]
  IN IF newValue = None
     THEN [value |-> val, startTurn |-> turn, pickerValue |-> pick,
           reported |-> NoReport]
     ELSE IF turn
     THEN LET isReverse == endDay # None /\ isAfter(newValue, endDay)
              newVal == IF isReverse THEN <<newValue, None>>
                                     ELSE <<newValue, endDay>>
          IN [value |-> newVal, startTurn |-> FALSE,
              pickerValue |-> newValue, reported |-> newVal]
     ELSE LET isReverse == startDay # None /\ isBefore(newValue, startDay)
          IN IF isReverse
             THEN [value |-> <<newValue, startDay>>, startTurn |-> FALSE,
                   pickerValue |-> newValue,
                   reported |-> <<newValue, startDay>>]
             ELSE [value |-> <<startDay, newValue>>, startTurn |-> TRUE,
                   pickerValue |-> newValue,
                   reported |-> <<startDay, newValue>>]

\* clear that forgets setStartTurn(true)
handleClear_keepTurn(val, turn, pick) ==
  [value |-> <<None, None>>, startTurn |-> turn, pickerValue |-> None,
   reported |-> <<None, None>>]

handleClear(val, turn, pick) ==
  [value |-> <<None, None>>, startTurn |-> TRUE, pickerValue |-> None,
   reported |-> <<None, None>>]

----------------------------------------------------------------------------
(* state machine *)

Ordered(val) == val[1] # None /\ val[2] # None => val[1] <= val[2]

\* useState(false) for the turn flag
Mounted_endTurn(val) ==
  /\ value = val
  /\ startTurn = FALSE
  /\ pickerValue = val[1]
  /\ pc = "rendered"
  /\ effectDeps = NoDeps
  /\ reported = NoReport
  /\ last = [op |-> "mount", d |-> None, turn0 |-> FALSE, val0 |-> val,
             pick0 |-> val[1]]
  /\ prev = [op |-> "none", d |-> None, turn0 |-> FALSE]
  /\ cells = renderCells(val)

Mounted(val) ==
  /\ value = val
  /\ startTurn = TRUE
  /\ pickerValue = val[1]
  /\ pc = "rendered"
  /\ effectDeps = NoDeps
  /\ reported = NoReport
  /\ last = [op |-> "mount", d |-> None, turn0 |-> TRUE, val0 |-> val,
             pick0 |-> val[1]]
  /\ prev = [op |-> "none", d |-> None, turn0 |-> TRUE]
  /\ cells = renderCells(val)

\* mounted with an empty, partial or ordered selection
Init == \E val \in MaybeDate \X MaybeDate : Ordered(val) /\ Mounted(val)

\* mounted with any pair the props type allows
InitAny == \E val \in MaybeDate \X MaybeDate : Mounted(val)

Record(op, d) ==
  /\ last' = [op |-> op, d |-> d, turn0 |-> startTurn, val0 |-> value,
              pick0 |-> pickerValue]
  /\ prev' = [op |-> last.op, d |-> last.d, turn0 |-> last.turn0]

Apply(r) ==
  /\ value' = r.value
  /\ startTurn' = r.startTurn
  /\ pickerValue' = r.pickerValue
  /\ reported' = r.reported
  /\ cells' = renderCells(r.value)

\* a date is picked in the calendar
Click(d) ==
  /\ pc = "idle"
  /\ d # None
  /\ Apply(handleChange(d, value, startTurn, pickerValue))
  /\ Record("click", d)
  /\ pc' = "rendered"
  /\ UNCHANGED effectDeps

\* the calendar calls onChange with null: no state is set, nothing re-renders
NullClick ==
  /\ pc = "idle"
  /\ Apply(handleChange(None, value, startTurn, pickerValue))
  /\ Record("null", None)
  /\ UNCHANGED <<pc, effectDeps>>

\* the clear button of the text field
Clear ==
  /\ pc = "idle"
  /\ Apply(handleClear(value, startTurn, pickerValue))
  /\ Record("clear", None)
  /\ pc' = "rendered"
  /\ UNCHANGED effectDeps

\* after a commit: the effect runs when a dependency has changed
Effect ==
  /\ pc = "rendered"
  /\ IF effectDeps # depsOf(value, startTurn)
     THEN /\ pickerValue' = effectValue(value, startTurn)
          /\ effectDeps' = depsOf(value, startTurn)
     ELSE UNCHANGED <<pickerValue, effectDeps>>
  /\ pc' = "idle"
  /\ UNCHANGED <<value, startTurn, reported, last, prev, cells>>

Next ==
  \/ \E d \in Dates : Click(d)
  \/ NullClick
  \/ Clear
  \/ Effect

Spec == Init /\ [][Next]_vars

SpecAny == InitAny /\ [][Next]_vars

----------------------------------------------------------------------------
(* properties *)

startDay == value[1]
endDay == value[2]
Both(val) == val[1] # None /\ val[2] # None

\* C1: from an empty or ordered initial selection, after any clicks, null
\* clicks and clears (the caller applying each reported pair), whenever start
\* and end are both present, start <= end.
C1_Ordering == Both(value) => startDay <= endDay

\* the end-turn reversal has just produced a full pair
C1_Witness ==
  /\ last.op = "click" /\ ~last.turn0
  /\ last.val0[1] # None /\ last.d < last.val0[1]
  /\ Both(value)

\* C2: a click of d while turn = start reports (d, none) when an end exists
\* and d is after it, else (d, end) with the end unchanged; the turn becomes
\* "end" and the old start is gone.
C2_StartTurnClick ==
  last.op = "click" /\ last.turn0 =>
    LET d == last.d
        e == last.val0[2]
    IN /\ reported = IF e # None /\ d > e THEN <<d, None>> ELSE <<d, e>>
       /\ value = reported
       /\ startTurn = FALSE

\* a start-turn click after the existing end, replacing an existing start
C2_Witness ==
  /\ last.op = "click" /\ last.turn0
  /\ Both(last.val0) /\ last.d > last.val0[2] /\ last.d # last.val0[1]
  /\ value = <<last.d, None>>

\* C3: a click of d while turn = end reports (d, old start) and keeps the
\* turn at "end" when a start exists and d is before it; otherwise it
\* reports (start, d) and the turn becomes "start".  Hence clicking A then B
\* with B before A, from turn = start, ends in (B, A) with turn = end.
C3_EndTurnClick ==
  /\ last.op = "click" /\ ~last.turn0 =>
       LET d == last.d
           s == last.val0[1]
       IN /\ value = reported
          /\ IF s # None /\ d < s
             THEN reported = <<d, s>> /\ startTurn = FALSE
             ELSE reported = <<s, d>> /\ startTurn = TRUE
  /\ (/\ prev.op = "click" /\ prev.turn0
      /\ last.op = "click" /\ last.d < prev.d)
     => value = <<last.d, prev.d>> /\ startTurn = FALSE

\* A clicked, then an earlier B clicked
C3_Witness ==
  /\ prev.op = "click" /\ prev.turn0
  /\ last.op = "click" /\ last.d < prev.d
  /\ value = <<last.d, prev.d>> /\ ~startTurn

\* C4: from any state with turn = start, clicking A and then B with A <= B
\* yields exactly (A, B) with turn = start; B = A gives (A, A).
C4_TwoClickCommit ==
  (/\ prev.op = "click" /\ prev.turn0
   /\ last.op = "click" /\ prev.d <= last.d)
  => value = <<prev.d, last.d>> /\ startTurn = TRUE

\* the same date clicked twice, committed and synchronised
C4_Witness ==
  /\ prev.op = "click" /\ prev.turn0
  /\ last.op = "click" /\ prev.d = last.d
  /\ value = <<last.d, last.d>> /\ pc = "idle"

\* C5: clear, in any state, reports (none, none) and leaves turn = start and
\* the picker position none, also once the effect has run.
C5_Clear ==
  last.op = "clear" =>
    /\ reported = <<None, None>>
    /\ value = <<None, None>>
    /\ startTurn = TRUE
    /\ pickerValue = None

\* a full selection cleared during the end turn, effect already run
C5_Witness ==
  /\ last.op = "clear" /\ pc = "idle"
  /\ Both(last.val0) /\ ~last.turn0 /\ last.pick0 # None

\* C6: once the effect that follows a render has run, the picker value is
\* the start when turn = start and the end when turn = end.
C6_PickerDerived ==
  pc = "idle" => pickerValue = IF startTurn THEN startDay ELSE endDay

\* after a click that left start and end different, the picker shows the end
C6_Witness ==
  /\ pc = "idle" /\ last.op = "click" /\ ~startTurn
  /\ Both(value) /\ startDay # endDay /\ pickerValue = endDay

\* C7: in the render committed by a click, before the effect runs, the
\* picker value already equals the start (turn = start) or the end
\* (turn = end) of the new selection.
C7_NoStaleFrame ==
  pc = "rendered" /\ last.op = "click" =>
    pickerValue = IF startTurn THEN startDay ELSE endDay

\* C8: handleChange(null) leaves selection, turn and picker value as they
\* were and does not call onChange.
C8_NullClick ==
  last.op = "null" =>
    /\ value = last.val0
    /\ startTurn = last.turn0
    /\ pickerValue = last.pick0
    /\ reported = NoReport
    /\ pc = "idle"

\* a null click on a full selection during the end turn
C8_Witness ==
  /\ last.op = "null" /\ Both(value) /\ ~startTurn /\ pickerValue # None

\* the calendar cell of a day is the instant at which that day starts
cellOf(k) == k * TicksPerDay
Min(a, b) == IF a <= b THEN a ELSE b
Max(a, b) == IF a <= b THEN b ELSE a

\* C9: for a selection reached by clicks with an endpoint present (a missing
\* endpoint taken equal to the present one), a calendar day is in-range iff
\* it lies between the earlier and the later bound inclusive, first iff it
\* is the day of the earlier bound, last iff it is the day of the later one.
C9_CellClasses ==
  last.op = "click" /\ (startDay # None \/ endDay # None) =>
    LET s == orElse(startDay, endDay)
        e == orElse(endDay, startDay)
        lo == dayOf(Min(s, e))
        hi == dayOf(Max(s, e))
    IN \A k \in 0 .. (NumDays - 1) :
         /\ cells[cellOf(k)].dayIsBetween <=> (lo <= k /\ k <= hi)
         /\ cells[cellOf(k)].isFirstDay <=> (k = lo)
         /\ cells[cellOf(k)].isLastDay <=> (k = hi)

\* C10: for any initial selection, turn = end implies a start is present,
\* and an empty selection implies turn = start; the end-turn branch of a
\* click never sees a missing start.
C10_TurnImpliesStart ==
  /\ startTurn = FALSE => startDay # None
  /\ value = <<None, None>> => startTurn = TRUE
  /\ last.op = "click" /\ ~last.turn0 => last.val0[1] # None

\* mounted with only an end date; the first click sets a start
C10_Witness ==
  /\ last.op = "click" /\ last.turn0
  /\ last.val0[1] = None /\ last.val0[2] # None
  /\ startTurn = FALSE /\ startDay # None

====
